---- MODULE Spec2Model ----
(***************************************************************************)
(* Model of eve_tools/ESI/metadata.py: the ESIMetadata store built from    *)
(* the swagger document, and the resolution of an endpoint key into an     *)
(* ESIRequest (__getitem__, _parse_parameters, _parse_security).           *)
(*                                                                         *)
(* Python values are modelled as follows.                                  *)
(*   dict with fixed string keys -> record; an optional key is a field     *)
(*                                  that may be missing from the DOMAIN    *)
(*   ordered dict method -> body -> sequence of [method, body] pairs       *)
(*   list                        -> sequence                               *)
(*   None                        -> the empty tuple, None                  *)
(*   a JSON scalar v used as a   -> the one-element tuple <<v>>            *)
(*     "default" value                                                     *)
(*   the "$ref" string           -> the sequence of its "/"-separated      *)
(*                                  segments, "" being the empty sequence  *)
(*   a raised exception          -> [ok |-> FALSE, error |-> kind, ...]    *)
(*   a returned value            -> [ok |-> TRUE, value |-> v]             *)
(***************************************************************************)
EXTENDS Integers, Sequences, FiniteSets, TLC

VARIABLES
    metadata,             \* the parsed swagger document handed to _load_metadata
    pc,                   \* "new" | "ready" | "failed": position of the constructor
    paths,                \* self.paths
    securityDefinitions,  \* self.securityDefinitions
    metaParams,           \* self._metaParams
    result,               \* the last operation and its outcome
    first,                \* key -> outcome of the first __getitem__(key), or None
    lastGet               \* the latest __getitem__ call: its key, whether the key
                          \* had been read before, and the key read just before it

vars == <<metadata, pc, paths, securityDefinitions, metaParams, result, first, lastGet>>

(***************************************************************************)
(* Bounds of the input documents.                                          *)
(***************************************************************************)
MaxMethods == 2     \* methods declared by one endpoint entry
MaxParams == 3      \* raw parameter entries of one operation
MaxSec == 2         \* security-requirement entries of one operation
MaxScopes == 2      \* scopes listed by one security-requirement entry

None == << >>

Ok(v) == [ok |-> TRUE, value |-> v]
Err(kind, arg) == [ok |-> FALSE, error |-> kind, arg |-> arg]
ErrCount(kind, n) == [ok |-> FALSE, error |-> kind, count |-> n]
ErrKey(kind, key, text) == [ok |-> FALSE, error |-> kind, key |-> key, text |-> text]

\* dict.get(k, default)
Get(d, k, default) == IF k \in DOMAIN d THEN d[k] ELSE default

\* All sequences over S of length 0..n
SeqsUpTo(S, n) == UNION {[1..k -> S] : k \in 0..n}

Last(s) == s[Len(s)]

(***************************************************************************)
(* .param: Param and ESIParams are imported by metadata.py, their code is  *)
(* not part of the source at hand.                                         *)
(***************************************************************************)
\* Param(name, _in, required, dtype, default=None)
Param(name, in_, required, type, default) ==
    [name |-> name, in |-> in_, required |-> required, type |-> type,
     default |-> default]

\* ESIParams(params): a container of the Params, in the order given
ESIParams(params) == params

\* ESIParams.__getitem__(key): the Param named key, None when there is none
ESIParamsGetItem(pool, key) ==
    IF \E i \in 1..Len(pool) : pool[i].name = key
    THEN pool[CHOOSE i \in 1..Len(pool) :
                 /\ pool[i].name = key
                 /\ \A j \in 1..(i-1) : pool[j].name # key]
    ELSE None

(***************************************************************************)
(* ESIMetadata._parse_parameters                                           *)
(***************************************************************************)
\* str.split("/") of a "$ref" string
Split(ref) == IF ref = << >> THEN <<"">> ELSE ref

\* The for loop of _parse_parameters from entry i on, params being the list so far
RECURSIVE ParseLoop(_, _, _, _)
ParseLoop(parameters, pool, i, params) ==
    IF i > Len(parameters) THEN Ok(ESIParams(params))
    ELSE LET param == parameters[i]
             metaparam == Get(param, "ref", << >>)
         IN  IF metaparam # << >>
             THEN LET param_ == ESIParamsGetItem(pool, Last(Split(metaparam)))
                  IN  ParseLoop(parameters, pool, i + 1,
                                IF param_ # None THEN Append(params, param_)
                                                 ELSE params)
             ELSE IF "name" \notin DOMAIN param THEN Err("KeyError", "name")
             ELSE IF "in" \notin DOMAIN param THEN Err("KeyError", "in")
             ELSE ParseLoop(parameters, pool, i + 1,
                            Append(params,
                                   Param(param.name, param.in,
                                         Get(param, "required", FALSE),
                                         Get(param, "type", ""),
                                         None)))

\* Bug variant: each resolved parameter is inserted at the front of the list
RECURSIVE ParseLoopPrepend(_, _, _, _)
ParseLoopPrepend(parameters, pool, i, params) ==
    IF i > Len(parameters) THEN Ok(ESIParams(params))
    ELSE LET param == parameters[i]
             metaparam == Get(param, "ref", << >>)
         IN  IF metaparam # << >>
             THEN LET param_ == ESIParamsGetItem(pool, Last(Split(metaparam)))
                  IN  ParseLoopPrepend(parameters, pool, i + 1,
                                IF param_ # None THEN <<param_>> \o params
                                                 ELSE params)
             ELSE IF "name" \notin DOMAIN param THEN Err("KeyError", "name")
             ELSE IF "in" \notin DOMAIN param THEN Err("KeyError", "in")
             ELSE ParseLoopPrepend(parameters, pool, i + 1,
                            <<Param(param.name, param.in,
                                    Get(param, "required", FALSE),
                                    Get(param, "type", ""),
                                    None)>> \o params)

\* Bug variant: the result of the pool lookup is appended without the
\* "if param_" test, so a miss appends None
RECURSIVE ParseLoopNoMissTest(_, _, _, _)
ParseLoopNoMissTest(parameters, pool, i, params) ==
    IF i > Len(parameters) THEN Ok(ESIParams(params))
    ELSE LET param == parameters[i]
             metaparam == Get(param, "ref", << >>)
         IN  IF metaparam # << >>
             THEN ParseLoopNoMissTest(parameters, pool, i + 1,
                      Append(params, ESIParamsGetItem(pool, Last(Split(metaparam)))))
             ELSE IF "name" \notin DOMAIN param THEN Err("KeyError", "name")
             ELSE IF "in" \notin DOMAIN param THEN Err("KeyError", "in")
             ELSE ParseLoopNoMissTest(parameters, pool, i + 1,
                            Append(params,
                                   Param(param.name, param.in,
                                         Get(param, "required", FALSE),
                                         Get(param, "type", ""),
                                         None)))

ParseParametersPrepend(body, pool) ==
    IF "parameters" \notin DOMAIN body THEN Err("KeyError", "parameters")
    ELSE ParseLoopPrepend(body.parameters, pool, 1, << >>)

ParseParametersNoMissTest(body, pool) ==
    IF "parameters" \notin DOMAIN body THEN Err("KeyError", "parameters")
    ELSE ParseLoopNoMissTest(body.parameters, pool, 1, << >>)

ParseParameters(body, pool) ==
    IF "parameters" \notin DOMAIN body THEN Err("KeyError", "parameters")
    ELSE ParseLoop(body.parameters, pool, 1, << >>)

(***************************************************************************)
(* ESIMetadata._parse_security                                             *)
(***************************************************************************)
\* Bug variant: the scope list is returned without the length test
ParseSecurityNoLengthTest(body) ==
    LET security == Get(body, "security", None)
    IN  IF security = None \/ Len(security) = 0 THEN Ok(<< >>)
        ELSE IF "evesso" \notin DOMAIN security[1] THEN Err("KeyError", "evesso")
        ELSE Ok(security[1].evesso)

ParseSecurity(body) ==
    LET security == Get(body, "security", None)
    IN  IF security = None \/ Len(security) = 0 THEN Ok(<< >>)
        ELSE IF "evesso" \notin DOMAIN security[1] THEN Err("KeyError", "evesso")
        ELSE LET scope_ == security[1].evesso
             IN  IF Len(scope_) > 1 THEN ErrCount("ValueError", Len(scope_))
                 ELSE Ok(scope_)

(***************************************************************************)
(* ESIMetadata.__getitem__                                                 *)
(***************************************************************************)
\* ESIRequest(request_key, request_type, parameters, security)
ESIRequest(request_key, request_type, parameters, security) ==
    [request_key |-> request_key, request_type |-> request_type,
     parameters |-> parameters, security |-> security]

\* list(self.paths[key].keys())
MethodKeys(entry) == [i \in 1..Len(entry) |-> entry[i].method]

\* s[0] of a method name s
FirstChar(s) ==
    CASE s = "get" -> "g"
      [] s = "post" -> "p"
      [] s = "put" -> "p"
      [] s = "delete" -> "d"

\* The for loop over the listed methods: request_type is the list itself
\* until a "get" or "post" is met, then the string t of the latest such t
RECURSIVE SelectLoop(_, _, _)
SelectLoop(types, i, request_type) ==
    IF i > Len(types) THEN request_type
    ELSE SelectLoop(types, i + 1,
                    IF types[i] = "get" \/ types[i] = "post"
                    THEN [str |-> types[i]]
                    ELSE request_type)

\* request_type after lines 97-103
SelectType(types) ==
    IF Len(types) > 1 THEN SelectLoop(types, 1, [list |-> types])
    ELSE [list |-> types]

\* request_type[0]: the first element of a list, the first character of a string
Index0(request_type) ==
    IF "str" \in DOMAIN request_type THEN Ok(FirstChar(request_type.str))
    ELSE IF Len(request_type.list) = 0
         THEN Err("IndexError", "list index out of range")
         ELSE Ok(request_type.list[1])

\* self.paths[key][request_type]
HasMethod(entry, m) == \E i \in 1..Len(entry) : entry[i].method = m
BodyOf(entry, m) == entry[CHOOSE i \in 1..Len(entry) : entry[i].method = m].body

\* Lines 96-110, the entry of the key being at hand
ResolveEntry(entry, pool, key) ==
    LET request_type == Index0(SelectType(MethodKeys(entry)))
    IN  IF ~request_type.ok THEN request_type
        ELSE IF ~HasMethod(entry, request_type.value)
             THEN Err("KeyError", request_type.value)
        ELSE LET request_body == BodyOf(entry, request_type.value)
                 parameters == ParseParameters(request_body, pool)
                 security == ParseSecurity(request_body)
             IN  IF ~parameters.ok THEN parameters
                 ELSE IF ~security.ok THEN security
                 ELSE Ok(ESIRequest(key, request_type.value,
                                    parameters.value, security.value))

\* Bug variant: a missing key is read as an entry without methods
\* (self.paths.get(key, {})) instead of being rejected
GetItemDefaultEntry(paths_, pool, key) ==
    ResolveEntry(Get(paths_, key, << >>), pool, key)

GetItem(paths_, pool, key) ==
    IF key \notin DOMAIN paths_
    THEN ErrKey("KeyError", key, "is not a valid request type.")
    ELSE ResolveEntry(paths_[key], pool, key)

\* The attributes of self that __getitem__ leaves behind: it assigns none
GetItemStoreDropsKey(store, key) ==
    [store EXCEPT !.paths = [k \in DOMAIN store.paths \ {key} |-> store.paths[k]]]

GetItemStore(store, key) == store

(***************************************************************************)
(* ESIMetadata.__setitem__                                                 *)
(***************************************************************************)
SetItem(key, value) == Err("TypeError", "ESIMetadata is not writable")

\* Bug variant: the value is stored under the key
SetItemStoreWrites(store, key, value) ==
    [store EXCEPT !.paths = [k \in DOMAIN store.paths \cup {key} |->
                                IF k = key THEN value ELSE store.paths[k]]]

\* The attributes of self that __setitem__ leaves behind: it assigns none
SetItemStore(store, key, value) == store

(***************************************************************************)
(* ESIMetadata._load_metadata, from the parsed document on (lines 196-212) *)
(***************************************************************************)
\* metadata["parameters"].values()
Values(d) == [i \in 1..Len(d) |-> d[i].value]

\* The list comprehension of lines 202-211 from value i on
RECURSIVE PoolLoop(_, _, _)
PoolLoop(values, i, params) ==
    IF i > Len(values) THEN Ok(ESIParams(params))
    ELSE LET v == values[i]
         IN  IF "name" \notin DOMAIN v THEN Err("KeyError", "name")
             ELSE IF "in" \notin DOMAIN v THEN Err("KeyError", "in")
             ELSE IF "type" \notin DOMAIN v THEN Err("KeyError", "type")
             ELSE PoolLoop(values, i + 1,
                           Append(params,
                                  Param(v.name, v.in, Get(v, "required", FALSE),
                                        v.type, Get(v, "default", None))))

\* The attributes of self and the outcome of _load_metadata; self starts
\* with the three attributes None (__init__, lines 73-76)
LoadAttrs(out, p, sd, mp) ==
    [out |-> out, paths |-> p, securityDefinitions |-> sd, metaParams |-> mp]

\* Bug variant: the emptiness test of line 196 is missing
LoadMetadataNoEmptyTest(doc) ==
    IF "securityDefinitions" \notin DOMAIN doc
    THEN LoadAttrs(Err("KeyError", "securityDefinitions"), None, None, None)
    ELSE IF "paths" \notin DOMAIN doc
    THEN LoadAttrs(Err("KeyError", "paths"), None, doc.securityDefinitions, None)
    ELSE IF "parameters" \notin DOMAIN doc
    THEN LoadAttrs(Err("KeyError", "parameters"), doc.paths,
                   doc.securityDefinitions, None)
    ELSE LET params == PoolLoop(Values(doc.parameters), 1, << >>)
         IN  IF ~params.ok
             THEN LoadAttrs(params, doc.paths, doc.securityDefinitions, None)
             ELSE LoadAttrs(Ok(None), doc.paths, doc.securityDefinitions,
                            params.value)

LoadMetadata(doc) ==
    IF DOMAIN doc = {}
    THEN LoadAttrs(Err("ValueError", "Metadata is empty."), None, None, None)
    ELSE IF "securityDefinitions" \notin DOMAIN doc
    THEN LoadAttrs(Err("KeyError", "securityDefinitions"), None, None, None)
    ELSE IF "paths" \notin DOMAIN doc
    THEN LoadAttrs(Err("KeyError", "paths"), None, doc.securityDefinitions, None)
    ELSE IF "parameters" \notin DOMAIN doc
    THEN LoadAttrs(Err("KeyError", "parameters"), doc.paths,
                   doc.securityDefinitions, None)
    ELSE LET params == PoolLoop(Values(doc.parameters), 1, << >>)
         IN  IF ~params.ok
             THEN LoadAttrs(params, doc.paths, doc.securityDefinitions, None)
             ELSE LoadAttrs(Ok(None), doc.paths, doc.securityDefinitions,
                            params.value)

(***************************************************************************)
(* The input documents, of the shape of the ESI swagger document.          *)
(***************************************************************************)
Keys == {"k1", "k2", "k3"}          \* k3 is in no document's paths
Methods == {"get", "post", "put", "delete"}
Scopes == {"s1", "s2"}

Ref(poolKey) == [ref |-> <<"#", "parameters", poolKey>>]

InlineTypeId == [name |-> "type_id", in |-> "query", required |-> TRUE, type |-> "integer"]
InlineOrder == [name |-> "order_type", in |-> "query"]
InlineNoName == [in |-> "query", type |-> "string"]

RawEntries ==
    {InlineTypeId, InlineOrder, InlineNoName,
     Ref("datasource"), Ref("character_id"), Ref("missing")}

RawParamLists == SeqsUpTo(RawEntries, MaxParams)

\* Scope lists: none, one scope, or 2..MaxScopes scopes
ScopeAt(i) == IF i % 2 = 1 THEN "s1" ELSE "s2"

ScopeLists ==
    SeqsUpTo(Scopes, 1) \cup {[i \in 1..n |-> ScopeAt(i)] : n \in 2..MaxScopes}

SecEntries == {[evesso |-> sl] : sl \in ScopeLists} \cup {[basic |-> << >>]}

RawSecurities == SeqsUpTo(SecEntries, MaxSec)

MethodLists ==
    {ml \in SeqsUpTo(Methods, MaxMethods) :
        \A i, j \in 1..Len(ml) : i # j => ml[i] # ml[j]}

\* The operation stored under each method of a multi-method entry
OperationOf(m) ==
    CASE m = "get" -> [parameters |-> <<Ref("datasource")>>]
      [] m = "post" -> [parameters |-> <<InlineTypeId>>,
                        security |-> <<[evesso |-> <<"s1">>]>>]
      [] m = "put" -> [parameters |-> <<Ref("character_id")>>,
                       security |-> <<[evesso |-> <<"s2">>]>>]
      [] m = "delete" -> [parameters |-> << >>, security |-> << >>]

EntryOf(ml) == [i \in 1..Len(ml) |-> [method |-> ml[i], body |-> OperationOf(ml[i])]]

Single(m, body) == <<[method |-> m, body |-> body]>>

PoolDoc ==
    <<[key |-> "datasource",
       value |-> [name |-> "datasource", in |-> "query", type |-> "string",
                  default |-> <<"tranquility">>]],
      [key |-> "character_id",
       value |-> [name |-> "character_id", in |-> "path", type |-> "integer",
                  required |-> TRUE]]>>

PoolDocNoType ==
    <<[key |-> "datasource", value |-> [name |-> "datasource", in |-> "query"]]>>

SecDefs == [evesso |-> [type |-> "oauth2"]]

FullDoc(entry1) ==
    [paths |-> [k \in {"k1", "k2"} |->
                   IF k = "k1" THEN entry1 ELSE Single("get", OperationOf("get"))],
     securityDefinitions |-> SecDefs,
     parameters |-> PoolDoc]

TopKeys == {"paths", "securityDefinitions", "parameters"}

Restrict(d, D) == [k \in D |-> d[k]]

MethodDocs == {FullDoc(EntryOf(ml)) : ml \in MethodLists}

ParamDocs ==
    {FullDoc(Single("get", [parameters |-> ps])) : ps \in RawParamLists}
    \cup {FullDoc(Single("get", [security |-> << >>]))}

SecDocs ==
    {FullDoc(Single("post", [parameters |-> <<Ref("datasource")>>,
                             security |-> sec])) : sec \in RawSecurities}

BrokenDocs ==
    {Restrict(FullDoc(EntryOf(<<"get">>)), D) : D \in (SUBSET TopKeys) \ {TopKeys}}
    \cup {[FullDoc(EntryOf(<<"get">>)) EXCEPT !.parameters = PoolDocNoType]}
    \cup {[swagger |-> "2.0"]}

\* Documents whose paths hold only some of the keys
KeyDocs ==
    {[FullDoc(EntryOf(<<"get">>)) EXCEPT
         !.paths = Restrict(FullDoc(EntryOf(<<"post">>)).paths, D)] :
        D \in SUBSET {"k1", "k2"}}

Documents == MethodDocs \cup ParamDocs \cup SecDocs \cup KeyDocs \cup BrokenDocs

\* The values a caller tries to store
Values_ == {None, EntryOf(<<"get">>)}

(***************************************************************************)
(* The state machine: construction, then reads and write attempts.         *)
(***************************************************************************)
Store == [paths |-> paths, securityDefinitions |-> securityDefinitions,
          metaParams |-> metaParams]

Init ==
    /\ metadata \in Documents
    /\ pc = "new"
    /\ paths = None
    /\ securityDefinitions = None
    /\ metaParams = None
    /\ result = [op |-> "none"]
    /\ first = [k \in Keys |-> None]
    /\ lastGet = [key |-> "none", repeat |-> FALSE, prev |-> "none"]

\* ESIMetadata(): __init__ sets the attributes to None and calls _load_metadata
Construct ==
    /\ pc = "new"
    /\ LET r == LoadMetadata(metadata)
       IN  /\ pc' = IF r.out.ok THEN "ready" ELSE "failed"
           /\ paths' = r.paths
           /\ securityDefinitions' = r.securityDefinitions
           /\ metaParams' = r.metaParams
           /\ result' = [op |-> "load", out |-> r.out]
    /\ UNCHANGED <<metadata, first, lastGet>>

\* metadata[key]
Resolve ==
    /\ pc = "ready"
    /\ \E key \in Keys :
          LET out == GetItem(paths, metaParams, key)
              after == GetItemStore(Store, key)
          IN  /\ result' = [op |-> "getitem", key |-> key, out |-> out]
              /\ first' = IF first[key] = None THEN [first EXCEPT ![key] = out]
                                               ELSE first
              /\ lastGet' = [key |-> key, repeat |-> first[key] # None,
                              prev |-> lastGet.key]
              /\ paths' = after.paths
              /\ securityDefinitions' = after.securityDefinitions
              /\ metaParams' = after.metaParams
    /\ UNCHANGED <<metadata, pc>>

\* metadata[key] = value
Write ==
    /\ pc = "ready"
    /\ \E key \in Keys, value \in Values_ :
          LET out == SetItem(key, value)
              after == SetItemStore(Store, key, value)
          IN  /\ result' = [op |-> "setitem", key |-> key, out |-> out]
              /\ paths' = after.paths
              /\ securityDefinitions' = after.securityDefinitions
              /\ metaParams' = after.metaParams
    /\ UNCHANGED <<metadata, pc, first, lastGet>>

Next == Construct \/ Resolve \/ Write

Spec == Init /\ [][Next]_vars

TypeOK ==
    /\ pc \in {"new", "ready", "failed"}
    /\ result.op \in {"none", "load", "getitem", "setitem"}
    /\ pc = "new" <=> result.op = "none"

(***************************************************************************)
(* Vocabulary of the properties, stated on the document and the outcome.   *)
(***************************************************************************)
Got == result.op = "getitem"
GotKnown == Got /\ result.key \in DOMAIN paths
Entry == paths[result.key]
Declared == {Entry[i].method : i \in 1..Len(Entry)}
Selectable == {"get", "post"}
Descriptor == result.out.value

IsRef(p) == "ref" \in DOMAIN p /\ p.ref # << >>
IsInline(p) == ~IsRef(p) /\ {"name", "in"} \subseteq DOMAIN p
PoolNames == {metaParams[i].name : i \in 1..Len(metaParams)}
Resolves(p) == IsRef(p) /\ p.ref[Len(p.ref)] \in PoolNames
Dangling(p) == IsRef(p) /\ p.ref[Len(p.ref)] \notin PoolNames

\* The operation is one the parameter and security rules accept
ParamsAccepted(b) ==
    /\ "parameters" \in DOMAIN b
    /\ \A i \in 1..Len(b.parameters) :
          IsRef(b.parameters[i]) \/ IsInline(b.parameters[i])

NoSecurity(b) == IF "security" \in DOMAIN b THEN Len(b.security) = 0 ELSE TRUE

ScopesOf(b) == b.security[1].evesso

SecurityAccepted(b) ==
    \/ NoSecurity(b)
    \/ "evesso" \in DOMAIN b.security[1] /\ Len(ScopesOf(b)) <= 1

Accepted(b) == ParamsAccepted(b) /\ SecurityAccepted(b)

\* The descriptor the data model prescribes for one raw parameter entry
PoolParam(n) == metaParams[CHOOSE j \in 1..Len(metaParams) : metaParams[j].name = n]

DescriptorOf(p) ==
    IF IsRef(p) THEN PoolParam(p.ref[Len(p.ref)])
    ELSE [name |-> p.name, in |-> p.in,
          required |-> IF "required" \in DOMAIN p THEN p.required ELSE FALSE,
          type |-> IF "type" \in DOMAIN p THEN p.type ELSE "",
          default |-> None]

\* The raw entries that are no dangling reference, in their order
Kept(raw) == SelectSeq(raw, LAMBDA p : ~Dangling(p))

\* The method section 4.4 of the specification selects
Preferred ==
    IF Len(Entry) = 1 THEN Entry[1].method
    ELSE IF "get" \in Declared THEN "get" ELSE "post"

\* The entry declares one operation only, sole
SoleBody == Entry[1].body
Raw == SoleBody.parameters

(***************************************************************************)
(* C1. For every key present in paths whose entry declares "get" or "post" *)
(* and whose operations are well formed, __getitem__ returns a request     *)
(* whose request_type is "get" or "post".                                  *)
(* The code fails on every entry of several methods that declares one of   *)
(* the two: request_type becomes the string and [0] takes its first letter.*)
(***************************************************************************)
C1_ResolvesToGetOrPost ==
    (/\ GotKnown
     /\ Declared \cap Selectable # {}
     /\ \A i \in 1..Len(Entry) : Accepted(Entry[i].body))
    => /\ result.out.ok
       /\ Descriptor.request_type \in Selectable

(***************************************************************************)
(* C2. The method of the request is the only declared method, or among     *)
(* several "get" if declared, else "post" if declared, whatever the order  *)
(* of the methods; the operation parsed is the one stored under it.        *)
(***************************************************************************)
C2_MethodSelection ==
    (/\ GotKnown
     /\ Len(Entry) >= 1
     /\ Len(Entry) > 1 => Declared \cap Selectable # {}
     /\ \A i \in 1..Len(Entry) : Accepted(Entry[i].body))
    => /\ result.out.ok
       /\ Descriptor.request_type = Preferred
       /\ LET b == BodyOf(Entry, Preferred)
          IN  /\ Len(Descriptor.parameters) = Len(Kept(b.parameters))
              /\ Descriptor.security = IF NoSecurity(b) THEN << >> ELSE ScopesOf(b)

(***************************************************************************)
(* C3. An entry of several methods, none of them "get" or "post", makes    *)
(* __getitem__ fail with UnsupportedMethodSet; no method is picked.        *)
(***************************************************************************)
C3_UnsupportedMethodSet ==
    (GotKnown /\ Len(Entry) > 1 /\ Declared \cap Selectable = {})
    => /\ ~result.out.ok
       /\ result.out.error = "UnsupportedMethodSet"

(***************************************************************************)
(* C4. A key that is not in paths makes __getitem__ raise the KeyError     *)
(* that names the key; no request is returned.                             *)
(***************************************************************************)
C4_UnknownEndpoint ==
    (Got /\ result.key \notin DOMAIN paths)
    => result.out = [ok |-> FALSE, error |-> "KeyError", key |-> result.key,
                     text |-> "is not a valid request type."]

C4_Witness ==
    /\ Got
    /\ result.key = "k1"
    /\ DOMAIN paths = {"k2"}
    /\ ~result.out.ok

(***************************************************************************)
(* C5. Parameter resolution keeps the order: a raw list of inline entries  *)
(* and of references that resolve in the pool yields one descriptor per    *)
(* raw entry, at the same position; an inline entry yields its name and    *)
(* location, required FALSE and type "" unless given, and no default; a    *)
(* reference yields the descriptor of the pool.                            *)
(***************************************************************************)
C5_OrderPreserving ==
    (/\ GotKnown
     /\ Len(Entry) = 1
     /\ Accepted(SoleBody)
     /\ \A i \in 1..Len(Raw) : IsInline(Raw[i]) \/ Resolves(Raw[i]))
    => /\ result.out.ok
       /\ Len(Descriptor.parameters) = Len(Raw)
       /\ \A i \in 1..Len(Raw) : Descriptor.parameters[i] = DescriptorOf(Raw[i])

C5_Witness ==
    /\ GotKnown
    /\ Len(Entry) = 1
    /\ "parameters" \in DOMAIN SoleBody
    /\ Raw = <<InlineOrder, Ref("datasource"), InlineTypeId>>
    /\ result.out.ok
    /\ [i \in 1..3 |-> Descriptor.parameters[i].name]
           = <<"order_type", "datasource", "type_id">>
    /\ Descriptor.parameters[2].default = <<"tranquility">>

(***************************************************************************)
(* C6. A reference whose last path component names nothing in the pool is  *)
(* dropped without an error: the other entries are resolved in order and   *)
(* __getitem__ returns a request; [ref(missing)] resolves to no parameter. *)
(***************************************************************************)
C6_DanglingDropped ==
    (/\ GotKnown
     /\ Len(Entry) = 1
     /\ Accepted(SoleBody)
     /\ \E i \in 1..Len(Raw) : Dangling(Raw[i]))
    => /\ result.out.ok
       /\ Len(Descriptor.parameters) = Len(Kept(Raw))
       /\ \A i \in 1..Len(Kept(Raw)) :
             Descriptor.parameters[i] = DescriptorOf(Kept(Raw)[i])

C6_Witness ==
    /\ GotKnown
    /\ Len(Entry) = 1
    /\ "parameters" \in DOMAIN SoleBody
    /\ Raw = <<Ref("missing")>>
    /\ result.out.ok
    /\ Descriptor.parameters = << >>

(***************************************************************************)
(* C7. A returned request carries at most one scope.  No security, or an   *)
(* empty one, yields no scope; a first requirement of exactly one scope    *)
(* yields that scope, the later requirements being ignored; a first        *)
(* requirement of several scopes makes __getitem__ raise the ValueError    *)
(* that carries their number.                                              *)
(***************************************************************************)
C7_ScopeCardinality ==
    /\ (Got /\ result.out.ok) => Len(Descriptor.security) <= 1
    /\ (GotKnown /\ Len(Entry) = 1 /\ ParamsAccepted(SoleBody))
       => IF NoSecurity(SoleBody)
          THEN result.out.ok /\ Descriptor.security = << >>
          ELSE IF "evesso" \notin DOMAIN SoleBody.security[1] THEN TRUE
          ELSE IF Len(ScopesOf(SoleBody)) = 1
          THEN result.out.ok /\ Descriptor.security = <<ScopesOf(SoleBody)[1]>>
          ELSE IF Len(ScopesOf(SoleBody)) > 1
          THEN result.out = [ok |-> FALSE, error |-> "ValueError",
                             count |-> Len(ScopesOf(SoleBody))]
          ELSE TRUE

C7_Witness ==
    /\ GotKnown
    /\ Len(Entry) = 1
    /\ "security" \in DOMAIN SoleBody
    /\ Len(SoleBody.security) = 2
    /\ SoleBody.security[1] = [evesso |-> <<"s1", "s2">>]
    /\ ~result.out.ok
    /\ result.out.error = "ValueError"
    /\ result.out.count = 2

C9_SingleErrorKind ==
    (pc # "new" /\ ~(TopKeys \subseteq DOMAIN metadata))
    => /\ pc = "failed"
       /\ result.out.error = "ValueError"

(***************************************************************************)
(* C9, amended. Construction fails with the ValueError "Metadata is        *)
(* empty." when the document is empty, and with the KeyError of a missing  *)
(* key when the document is not empty and lacks one of paths,              *)
(* securityDefinitions, parameters; in neither case is a store built.      *)
(***************************************************************************)
C9_FailsEmptyOrKeyless ==
    (pc # "new" /\ ~(TopKeys \subseteq DOMAIN metadata))
    => /\ pc = "failed"
       /\ result.op = "load"
       /\ IF DOMAIN metadata = {}
          THEN result.out = [ok |-> FALSE, error |-> "ValueError",
                             arg |-> "Metadata is empty."]
          ELSE /\ ~result.out.ok
               /\ result.out.error = "KeyError"
               /\ result.out.arg \in TopKeys \ DOMAIN metadata

C9_Witness ==
    /\ pc = "failed"
    /\ DOMAIN metadata = {"securityDefinitions", "parameters"}
    /\ result.out.error = "KeyError"
    /\ result.out.arg = "paths"

(***************************************************************************)
(* C10. Every metadata[key] = value raises the TypeError, and the store    *)
(* keeps the paths, securityDefinitions and parameter pool that            *)
(* construction gave it, whatever reads and write attempts were made.      *)
(***************************************************************************)
BuiltPool ==
    [i \in 1..Len(metadata.parameters) |->
        LET v == metadata.parameters[i].value
        IN  [name |-> v.name, in |-> v.in,
             required |-> IF "required" \in DOMAIN v THEN v.required ELSE FALSE,
             type |-> v.type,
             default |-> IF "default" \in DOMAIN v THEN v.default ELSE None]]

C10_ReadOnly ==
    pc = "ready"
    => /\ result.op = "setitem"
          => result.out = [ok |-> FALSE, error |-> "TypeError",
                           arg |-> "ESIMetadata is not writable"]
       /\ paths = metadata.paths
       /\ securityDefinitions = metadata.securityDefinitions
       /\ metaParams = BuiltPool

C10_Witness ==
    /\ result.op = "setitem"
    /\ result.key \in DOMAIN paths
    /\ ~result.out.ok
    /\ lastGet.key # "none"

====
